---- MODULE Spec2Model ----
(***************************************************************************)
(* A model of the outfit recommendation pipeline of app.py / app_final.py: *)
(* the Shopify connector with its admin/storefront tiers, the Amazon       *)
(* product search, the Twitter prompt enhancement, the extraction of the   *)
(* search terms, the session with its sidebar and the two analysis         *)
(* handlers.                                                               *)
(*                                                                         *)
(* Python values are modelled as tagged records, so that the difference    *)
(* between a missing key, a key holding None and a key holding an empty    *)
(* value is kept:                                                          *)
(*   None            [t |-> "none"]                                        *)
(*   "abc"           [t |-> "str",  v |-> "abc"]                           *)
(*   [a, b]          [t |-> "list", v |-> <<a, b>>]                        *)
(*   {"k": x}        [t |-> "dict", k |-> x]    (a key is a field)         *)
(*   obj.k = x       [t |-> "obj",  k |-> x]    (an attribute is a field)  *)
(* An expression that raises evaluates to Raise.                           *)
(***************************************************************************)
EXTENDS Integers, Sequences, FiniteSets, TLC

VARIABLES
    admin_headers,        \* ShopifyConnector.admin_headers is set
    storefront_headers,   \* ShopifyConnector.storefront_headers is set
    upstream,             \* what the store answers: [admin, storefront]
    amazon_client,        \* the Amazon client was built at startup
    amazonUp,             \* what amazon_client.search_items answers
    call,                 \* the last catalog search: its arguments and what it did
    twitter_data,         \* st.session_state.twitter_data
    promptCall,           \* the last prompt composition: its arguments and its result
    fpc,                  \* app_final.py: where the handler of the Analyze button is
    outfit_analysis,      \* app_final.py: outfit_analysis.text
    trends,               \* app_final.py: trends, None until it is assigned
    ran,                  \* app_final.py: the external calls made, and how each ended
    shown,                \* app_final.py: what the handler has put on the page
    recommendation_text,  \* the recommendation text extract_search_terms is given
    extraction,           \* what the generation call of extract_search_terms answers
    termsCall,            \* the last call of extract_search_terms and its result
    pinai_key,            \* PINAI_API_KEY is set, so pinai_client was built
    twitter_connected,    \* st.session_state.twitter_connected
    attempts,             \* how each get_twitter_style_data call of the session ended
    request               \* the last run of the Analyze Image handler

shopVars == <<admin_headers, storefront_headers, upstream>>
amazonVars == <<amazon_client, amazonUp>>
catalogVars == <<shopVars, amazonVars, call>>
promptVars == <<twitter_data, promptCall>>
finalVars == <<fpc, outfit_analysis, trends, ran, shown>>
termVars == <<recommendation_text, extraction, termsCall>>
sessionVars == <<pinai_key, twitter_connected, attempts, request>>
vars == <<catalogVars, promptVars, finalVars, termVars, sessionVars>>

(***************************************************************************)
(* Bounds of the model                                                     *)
(***************************************************************************)
MaxRows == 2      \* rows in one upstream Shopify response
MaxItems == 2     \* items in one upstream Amazon result
MaxLimit == 2     \* the limit argument ranges over 1..MaxLimit
MaxPrefs == 2     \* fashion interests, and color preferences, in one profile
MaxTweets == 4    \* recent tweets in one profile
MaxParts == 3     \* text segments in one grounded response
MaxPieces == 4    \* pieces a recommendation text or a generation response is made of
MaxAttempts == 2  \* presses of the Connect Twitter button in one session

(***************************************************************************)
(* Python values                                                           *)
(***************************************************************************)
None == [t |-> "none"]
Raise == [t |-> "raise"]
Str(s) == [t |-> "str", v |-> s]
List(s) == [t |-> "list", v |-> s]
EmptyDict == [t |-> "dict"]

IsRaise(x) == x.t = "raise"
IsNone(x) == x.t = "none"

\* the keys of a dict (the attributes of an object)
Keys(d) == DOMAIN d \ {"t"}

\* k in d, for a dict d
In(k, d) == k \in Keys(d)

\* d.get(k, default), for a dict d
Get(d, k, default) == IF k \in Keys(d) THEN d[k] ELSE default

\* d without key k
Without(d, k) == [x \in DOMAIN d \ {k} |-> d[x]]

\* bool(x)
Truthy(x) ==
    CASE x.t = "none" -> FALSE
      [] x.t = "str" -> x.v # ""
      [] x.t = "list" -> x.v # <<>>
      [] x.t = "dict" -> Keys(x) # {}
      [] OTHER -> TRUE

\* str(x), as an f-string renders it
Fmt(x) == IF x.t = "str" THEN x.v ELSE "None"

\* the rows normalized before the first one that raises
UntilRaise(rows) ==
    LET bad == {i \in 1..Len(rows) : IsRaise(rows[i])}
        first == IF bad = {} THEN Len(rows) + 1
                 ELSE CHOOSE i \in bad : \A j \in bad : i <= j
    IN  SubSeq(rows, 1, first - 1)

AnyRaise(rows) == \E i \in 1..Len(rows) : IsRaise(rows[i])

\* all sequences over S of length at most n
SeqsUpTo(S, n) == UNION {[1..k -> S] : k \in 0..n}

(***************************************************************************)
(* ShopifyConnector                                                        *)
(***************************************************************************)
base_url == "https://store"

\* (faulty variant) the price of an admin row is the bare amount
AdminPrice_Flat(price) == price

\* the price of an admin row: the variant's price, in USD
AdminPrice(price) == [t |-> "dict", amount |-> price, currency |-> Str("USD")]

\* the price of a storefront row, from minVariantPrice
StorefrontPrice(price_data) ==
    [t |-> "dict",
     amount |-> Get(price_data, "amount", Str("")),
     currency |-> Get(price_data, "currencyCode", Str("USD"))]

\* the body of the admin loop: one REST product to one product_info
AdminProductInfo(product) ==
    IF product.t # "dict" THEN Raise
    ELSE
    LET hasVariants == In("variants", product) /\ Truthy(product.variants)
        variant == product.variants.v[1]
        price == Get(variant, "price", None)
        hasImages == In("images", product) /\ Truthy(product.images)
        image == product.images.v[1]
    IN  IF hasVariants /\ product.variants.t # "list" THEN Raise
        ELSE IF hasVariants /\ variant.t # "dict" THEN Raise
        ELSE IF hasImages /\ product.images.t # "list" THEN Raise
        ELSE IF hasImages /\ image.t # "dict" THEN Raise
        ELSE [t |-> "dict",
              id |-> Get(product, "id", None),
              title |-> Get(product, "title", Str("No title")),
              description |-> Get(product, "body_html", Str("No description")),
              handle |-> Get(product, "handle", Str("")),
              url |-> Str(base_url \o "/products/" \o Fmt(Get(product, "handle", Str("")))),
              price |-> IF hasVariants /\ Truthy(price) THEN AdminPrice(price) ELSE None,
              image_url |-> IF hasImages THEN Get(image, "src", None) ELSE None]

\* the body of the storefront loop: one GraphQL edge to one product
StorefrontProduct(edge) ==
    IF edge.t # "dict" \/ ~In("node", edge) THEN Raise
    ELSE
    LET node == edge.node
    IN  IF node.t # "dict" THEN Raise
        ELSE
        LET hasRange == In("priceRange", node)
            range == node.priceRange
            hasPrice == hasRange /\ In("minVariantPrice", range)
            price_data == range.minVariantPrice
            hasImages == In("images", node)
            images == node.images
            hasEdges == hasImages /\ In("edges", images)
            hasImage == hasEdges /\ Len(images.edges.v) > 0
            imageEdge == images.edges.v[1]
            image_data == imageEdge.node
        IN  IF hasRange /\ range.t # "dict" THEN Raise
            ELSE IF hasPrice /\ price_data.t # "dict" THEN Raise
            ELSE IF hasImages /\ images.t # "dict" THEN Raise
            ELSE IF hasEdges /\ images.edges.t # "list" THEN Raise
            ELSE IF hasImage /\ (imageEdge.t # "dict" \/ ~In("node", imageEdge)) THEN Raise
            ELSE IF hasImage /\ image_data.t # "dict" THEN Raise
            ELSE [t |-> "dict",
                  id |-> Get(node, "id", Str("")),
                  title |-> Get(node, "title", Str("No title")),
                  description |-> Get(node, "description", Str("")),
                  url |-> Get(node, "onlineStoreUrl",
                              Str(base_url \o "/products/" \o Fmt(Get(node, "handle", Str(""))))),
                  price |-> IF hasPrice THEN StorefrontPrice(price_data) ELSE None,
                  image_url |-> IF hasImage THEN Get(image_data, "url", Str("")) ELSE None]

\* (faulty variant) the admin tier returns its list even when the store sent no product
AdminTier_ReturnsEmpty(response) ==
    IF response.t = "raise" \/ response.status_code # 200 \/ IsRaise(response.json)
    THEN [products |-> <<>>, returned |-> FALSE]
    ELSE [products |-> <<>>, returned |-> TRUE]

\* the admin tier of search_products: the rows appended to products, and whether
\* the method returned from inside the tier
AdminTier(response) ==
    IF response.t = "raise" \/ response.status_code # 200 \/ IsRaise(response.json)
    THEN [products |-> <<>>, returned |-> FALSE]
    ELSE
    LET data == response.json
    IN  IF data.t # "dict" \/ ~In("products", data) \/ ~Truthy(data.products)
        THEN [products |-> <<>>, returned |-> FALSE]
        ELSE
        LET rows == [i \in 1..Len(data.products.v) |-> AdminProductInfo(data.products.v[i])]
        IN  [products |-> UntilRaise(rows), returned |-> ~AnyRaise(rows)]

\* the storefront tier of search_products: the rows appended to products
StorefrontTier(response) ==
    IF response.t = "raise" \/ response.status_code # 200 \/ IsRaise(response.json)
    THEN <<>>
    ELSE
    LET data == response.json
    IN  IF data.t # "dict" \/ ~In("data", data) THEN <<>>
        ELSE IF data.data.t # "dict" \/ ~In("products", data.data) THEN <<>>
        ELSE IF data.data.products.t # "dict" \/ ~In("edges", data.data.products) THEN <<>>
        ELSE IF data.data.products.edges.t # "list" THEN <<>>
        ELSE
        LET edges == data.data.products.edges.v
            rows == [i \in 1..Len(edges) |-> StorefrontProduct(edges[i])]
        IN  UntilRaise(rows)

\* (faulty variant) the connector remembers that it has searched and asks the
\* storefront on its first search only
TryStorefront_Once(sf_headers, products) ==
    sf_headers /\ products = <<>> /\ call.op = "none"

\* (faulty variant) the storefront tier is tried whatever the admin tier appended
TryStorefront_IgnoringRows(sf_headers, products) == sf_headers

\* whether search_products goes on to the storefront tier
TryStorefront(sf_headers, products) == sf_headers /\ products = <<>>

\* search_products(query, limit): the returned list and the endpoints requested
search_products(adm_headers, sf_headers, query, limit, up) ==
    LET admin == IF adm_headers THEN AdminTier(up.admin)
                 ELSE [products |-> <<>>, returned |-> FALSE]
        viaAdmin == IF adm_headers THEN <<"admin">> ELSE <<>>
    IN  IF admin.returned
        THEN [products |-> admin.products, requests |-> viaAdmin]
        ELSE IF TryStorefront(sf_headers, admin.products)
        THEN [products |-> admin.products \o StorefrontTier(up.storefront),
              requests |-> viaAdmin \o <<"storefront">>]
        ELSE [products |-> admin.products, requests |-> viaAdmin]

\* the admin loop of get_product_recommendations over the products from
\* position i on: the product whose id is product_id is skipped before it is
\* read any further, the loop stops at limit rows, and a product that cannot
\* be read raises; otherwise the result is the list of rows
RECURSIVE RecommendLoop(_, _, _, _, _)
RecommendLoop(products, i, product_id, limit, recommendations) ==
    IF i > Len(products) THEN List(recommendations)
    ELSE IF products[i].t # "dict" THEN Raise
    ELSE IF Fmt(Get(products[i], "id", None)) = Fmt(product_id)
    THEN RecommendLoop(products, i + 1, product_id, limit, recommendations)
    ELSE
    LET product_info == AdminProductInfo(products[i])
        appended == Append(recommendations, product_info)
    IN  IF IsRaise(product_info) THEN Raise
        ELSE IF Len(appended) >= limit THEN List(appended)
        ELSE RecommendLoop(products, i + 1, product_id, limit, appended)

\* the admin tier of get_product_recommendations: the list it returns, and
\* whether the method returned from inside the tier
RecommendAdminTier(response, product_id, limit) ==
    IF response.t = "raise" \/ response.status_code # 200 \/ IsRaise(response.json)
    THEN [recommendations |-> <<>>, returned |-> FALSE]
    ELSE
    LET data == response.json
    IN  IF data.t # "dict" \/ ~In("products", data) \/ ~Truthy(data.products)
        THEN [recommendations |-> <<>>, returned |-> FALSE]
        ELSE
        LET rows == RecommendLoop(data.products.v, 1, product_id, limit, <<>>)
        IN  IF IsRaise(rows) THEN [recommendations |-> <<>>, returned |-> FALSE]
            ELSE [recommendations |-> rows.v, returned |-> TRUE]

\* get_product_recommendations(product_id, limit): the returned list and the
\* tier that served it.  The fallback is search_products("", limit), which
\* asks the store again; the store answers as it did the first time.
get_product_recommendations(adm_headers, sf_headers, product_id, limit, up) ==
    LET admin == IF adm_headers THEN RecommendAdminTier(up.admin, product_id, limit)
                 ELSE [recommendations |-> <<>>, returned |-> FALSE]
    IN  IF admin.returned
        THEN [recommendations |-> admin.recommendations, tier |-> "admin"]
        ELSE IF sf_headers
        THEN [recommendations |-> search_products(adm_headers, sf_headers, "", limit, up).products,
              tier |-> "fallback"]
        ELSE [recommendations |-> <<>>, tier |-> "none"]

(***************************************************************************)
(* What the store may answer                                               *)
(***************************************************************************)
RaiseResp == [t |-> "raise"]
Http(status, body) == [t |-> "http", status_code |-> status, json |-> body]

\* a well-formed REST product
GoodProduct ==
    [t |-> "dict", id |-> Str("1"), title |-> Str("Red Shirt"),
     body_html |-> Str("<p>red</p>"), handle |-> Str("red-shirt"),
     variants |-> List(<<[t |-> "dict", price |-> Str("10.00")]>>),
     images |-> List(<<[t |-> "dict", src |-> Str("cdn/red.png")]>>)]

AdminProducts ==
    { GoodProduct,
      \* title and handle present but null
      [GoodProduct EXCEPT !.id = Str("2"), !.title = None, !.handle = None],
      \* no title, no handle, no variants, no images
      [t |-> "dict", id |-> Str("3")],
      \* an empty title, a variant without a price, an image without a src
      [GoodProduct EXCEPT !.id = Str("4"), !.title = Str(""),
                          !.variants = List(<<[t |-> "dict", price |-> None]>>),
                          !.images = List(<<EmptyDict>>)],
      \* a null variant: variant.get raises
      [GoodProduct EXCEPT !.id = Str("5"), !.variants = List(<<None>>)] }

AdminResponses ==
    { RaiseResp, Http(500, EmptyDict), Http(200, Raise), Http(200, EmptyDict) }
    \cup { Http(200, [t |-> "dict", products |-> List(s)]) : s \in SeqsUpTo(AdminProducts, MaxRows) }

\* a well-formed GraphQL product node
GoodNode ==
    [t |-> "dict", id |-> Str("gid/1"), title |-> Str("Blue Shirt"),
     description |-> Str("blue"), handle |-> Str("blue-shirt"),
     onlineStoreUrl |-> Str("https://shop/blue-shirt"),
     priceRange |-> [t |-> "dict", minVariantPrice |->
                        [t |-> "dict", amount |-> Str("12.00"), currencyCode |-> Str("EUR")]],
     images |-> [t |-> "dict", edges |-> List(<<[t |-> "dict", node |->
                        [t |-> "dict", url |-> Str("cdn/blue.png"), altText |-> None]]>>)]]

StorefrontNodes ==
    { GoodNode,
      \* title and onlineStoreUrl present but null (a product not published online)
      [GoodNode EXCEPT !.id = Str("gid/2"), !.title = None, !.onlineStoreUrl = None],
      \* only an id and a handle
      [t |-> "dict", id |-> Str("gid/3"), handle |-> Str("green-shirt")],
      \* an empty title, a price without amount and currency, an image without url
      [GoodNode EXCEPT !.id = Str("gid/4"), !.title = Str(""),
                       !.priceRange = [t |-> "dict", minVariantPrice |-> EmptyDict],
                       !.images = [t |-> "dict", edges |-> List(<<[t |-> "dict", node |-> EmptyDict]>>)]],
      \* a null minVariantPrice: price_data.get raises
      [GoodNode EXCEPT !.id = Str("gid/5"),
                       !.priceRange = [t |-> "dict", minVariantPrice |-> None]] }

StorefrontEdges == { [t |-> "dict", node |-> n] : n \in StorefrontNodes }

StorefrontBody(edges) ==
    [t |-> "dict", data |-> [t |-> "dict", products |-> [t |-> "dict", edges |-> List(edges)]]]

StorefrontResponses ==
    { RaiseResp, Http(500, EmptyDict), Http(200, Raise),
      \* a GraphQL error answer: no data
      Http(200, [t |-> "dict", data |-> None]) }
    \cup { Http(200, StorefrontBody(s)) : s \in SeqsUpTo(StorefrontEdges, MaxRows) }

Queries == {"red shirt"}

(***************************************************************************)
(* search_amazon_products                                                  *)
(***************************************************************************)
Obj == [t |-> "obj"]

\* hasattr(o, a)
HasAttr(o, a) == a \in Keys(o)

\* getattr(o, a, default)
GetAttr(o, a, default) == IF a \in Keys(o) THEN o[a] ELSE default

\* the price string of an item, Raise when an attribute access fails
AmazonPrice(item) ==
    IF ~(HasAttr(item, "offers") /\ Truthy(item.offers)) THEN None
    ELSE IF ~HasAttr(item.offers, "listings") THEN Raise
    ELSE IF ~Truthy(item.offers.listings) THEN None
    ELSE
    LET listing == item.offers.listings.v[1]
    IN  IF ~HasAttr(listing, "price") THEN Raise
        ELSE
        LET price_info == listing.price
        IN  IF ~HasAttr(price_info, "amount") THEN None
            ELSE IF ~HasAttr(price_info, "currency") THEN Raise
            ELSE Str(Fmt(price_info.currency) \o " " \o Fmt(price_info.amount))

\* the image of an item, Raise when an attribute access fails
AmazonImage(item) ==
    IF ~(HasAttr(item, "images") /\ Truthy(item.images)) THEN None
    ELSE IF ~HasAttr(item.images, "primary") THEN Raise
    ELSE IF ~Truthy(item.images.primary) THEN None
    ELSE IF ~HasAttr(item.images.primary, "large") THEN Raise
    ELSE IF ~HasAttr(item.images.primary.large, "url") THEN Raise
    ELSE item.images.primary.large.url

\* the brand of an item (stored as rating), Raise when .get is not available
AmazonRating(item) ==
    IF ~HasAttr(item.item_info, "by_line_info") THEN None
    ELSE
    LET brand == GetAttr(item.item_info.by_line_info, "brand", EmptyDict)
    IN  IF brand.t # "dict" THEN Raise
        ELSE Get(brand, "display_value", None)

\* the body of the loop: one item to one product
AmazonProduct(item) ==
    IF ~HasAttr(item, "item_info") \/ ~HasAttr(item.item_info, "title") THEN Raise
    ELSE IF ~HasAttr(item, "detail_page_url") THEN Raise
    ELSE IF IsRaise(AmazonPrice(item)) \/ IsRaise(AmazonImage(item))
            \/ IsRaise(AmazonRating(item)) THEN Raise
    ELSE [t |-> "dict",
          title |-> GetAttr(item.item_info.title, "display_value", Str("No title available")),
          url |-> item.detail_page_url,
          price |-> AmazonPrice(item),
          image |-> AmazonImage(item),
          rating |-> AmazonRating(item)]

\* search_result.items[:limit]
FirstItems(items, limit) == SubSeq(items, 1, IF Len(items) < limit THEN Len(items) ELSE limit)

\* search_amazon_products(search_term, limit): None, or the list of products
search_amazon_products(client, search_term, limit, search_result) ==
    IF ~client THEN None
    ELSE IF search_result.t = "raise" \/ ~HasAttr(search_result, "items") THEN None
    ELSE IF search_result.items.t # "list" THEN None
    ELSE
    LET items == FirstItems(search_result.items.v, limit)
        rows == [i \in 1..Len(items) |-> AmazonProduct(items[i])]
    IN  IF AnyRaise(rows) THEN None ELSE List(rows)

GoodTitle == [t |-> "obj", display_value |-> Str("Denim Jacket")]
GoodByLine == [t |-> "obj", brand |-> [t |-> "dict", display_value |-> Str("Acme")]]
GoodInfo == [t |-> "obj", title |-> GoodTitle, by_line_info |-> GoodByLine]
GoodPrice == [t |-> "obj", amount |-> Str("20.0"), currency |-> Str("USD")]
Offers(price) == [t |-> "obj", listings |-> List(<<[t |-> "obj", price |-> price]>>)]
Images(primary) == [t |-> "obj", primary |-> primary]
GoodPrimary == [t |-> "obj", large |-> [t |-> "obj", url |-> Str("cdn/jacket.png")]]

\* a well-formed Amazon item
GoodItem ==
    [t |-> "obj", item_info |-> GoodInfo, detail_page_url |-> Str("https://amzn/jacket"),
     offers |-> Offers(GoodPrice), images |-> Images(GoodPrimary)]

AmazonItems ==
    { GoodItem,
      \* the price listing absent at each level
      Without(GoodItem, "offers"),
      [GoodItem EXCEPT !.offers = None],
      [GoodItem EXCEPT !.offers = [t |-> "obj", listings |-> List(<<>>)]],
      [GoodItem EXCEPT !.offers = Offers(None)],
      [GoodItem EXCEPT !.offers = Offers([t |-> "obj", currency |-> Str("USD")])],
      [GoodItem EXCEPT !.offers = Offers([t |-> "obj", amount |-> None, currency |-> Str("USD")])],
      \* the image absent at each level
      Without(GoodItem, "images"),
      [GoodItem EXCEPT !.images = None],
      [GoodItem EXCEPT !.images = Images(None)],
      [GoodItem EXCEPT !.images = Images([t |-> "obj", large |-> None])],
      \* the brand absent at each level
      [GoodItem EXCEPT !.item_info = Without(GoodInfo, "by_line_info")],
      [GoodItem EXCEPT !.item_info.by_line_info = None],
      [GoodItem EXCEPT !.item_info.by_line_info = Obj],
      [GoodItem EXCEPT !.item_info.by_line_info = [t |-> "obj", brand |-> None]],
      \* title and URL present but null
      [GoodItem EXCEPT !.item_info.title = None],
      [GoodItem EXCEPT !.item_info.title = [t |-> "obj", display_value |-> None]],
      [GoodItem EXCEPT !.detail_page_url = None] }

AmazonResults ==
    { RaiseResp, [t |-> "obj", items |-> None] }
    \cup { [t |-> "obj", items |-> List(s)] : s \in SeqsUpTo(AmazonItems, MaxItems) }

Terms == {"denim jacket"}

(***************************************************************************)
(* The connector as a state machine                                        *)
(***************************************************************************)
NoCall == [op |-> "none"]

\* no prompt composed, no profile in the session
IdlePrompt == twitter_data = None /\ promptCall = NoCall

\* app_final.py before the button is pressed
IdleFinal ==
    /\ fpc = "idle"
    /\ outfit_analysis = None
    /\ trends = None
    /\ ran = <<>>
    /\ shown = <<>>

\* extract_search_terms is not called
IdleTerms ==
    /\ recommendation_text = None
    /\ extraction = Raise
    /\ termsCall = NoCall

\* a session without PinAI key in which no button is pressed
IdleSession ==
    /\ pinai_key = FALSE
    /\ twitter_connected = FALSE
    /\ attempts = <<>>
    /\ request = NoCall

\* the connector is built with any combination of tokens, against any store; an
\* endpoint the connector holds no token for has no answer to give
InitShopify ==
    /\ admin_headers \in BOOLEAN
    /\ storefront_headers \in BOOLEAN
    /\ upstream \in [admin : IF admin_headers THEN AdminResponses ELSE {RaiseResp},
                      storefront : IF storefront_headers THEN StorefrontResponses
                                   ELSE {RaiseResp}]

\* no Shopify credentials: no connector, and a store that is never asked
IdleShopify ==
    /\ admin_headers = FALSE
    /\ storefront_headers = FALSE
    /\ upstream = [admin |-> RaiseResp, storefront |-> RaiseResp]

InitAmazon ==
    /\ amazon_client \in BOOLEAN
    /\ amazonUp \in IF amazon_client THEN AmazonResults ELSE {RaiseResp}

\* no Amazon credentials
IdleAmazon ==
    /\ amazon_client = FALSE
    /\ amazonUp = RaiseResp

\* a call of ShopifyConnector.search_products(query, limit)
SearchProducts ==
    /\ \E query \in Queries, limit \in 1..MaxLimit :
          LET r == search_products(admin_headers, storefront_headers, query, limit, upstream)
          IN  call' = [op |-> "search_products", query |-> query, limit |-> limit,
                           products |-> r.products, requests |-> r.requests,
                           \* this call repeats the one before it
                           again |-> /\ call.op = "search_products"
                                     /\ call.query = query /\ call.limit = limit]
    /\ UNCHANGED <<shopVars, amazonVars, promptVars, finalVars, termVars, sessionVars>>

\* a call of search_amazon_products(search_term, limit)
SearchAmazon ==
    /\ \E term \in Terms, limit \in 1..MaxLimit :
          call' = [op |-> "search_amazon_products", search_term |-> term, limit |-> limit,
                         products |-> search_amazon_products(amazon_client, term, limit, amazonUp),
                         again |-> /\ call.op = "search_amazon_products"
                                   /\ call.search_term = term /\ call.limit = limit]
    /\ UNCHANGED <<shopVars, amazonVars, promptVars, finalVars, termVars, sessionVars>>

\* the catalog searches, each against any answer of its own catalog
InitCatalog ==
    /\ (InitShopify /\ IdleAmazon) \/ (IdleShopify /\ InitAmazon)
    /\ call = NoCall
    /\ IdlePrompt
    /\ IdleFinal
    /\ IdleTerms
    /\ IdleSession

NextCatalog == SearchProducts \/ SearchAmazon

SpecCatalog == InitCatalog /\ [][NextCatalog]_vars

(***************************************************************************)
(* Recommendations: get_product_recommendations against any store          *)
(***************************************************************************)
\* the ids recommendations are asked for: an id of the REST catalog and an id
\* of the GraphQL catalog
ProductIds == {Str("1"), Str("gid/1")}

\* a call of ShopifyConnector.get_product_recommendations(product_id, limit)
GetRecommendations ==
    /\ \E product_id \in ProductIds, limit \in 1..MaxLimit :
          LET r == get_product_recommendations(admin_headers, storefront_headers,
                                               product_id, limit, upstream)
          IN  call' = [op |-> "get_product_recommendations",
                       product_id |-> product_id, limit |-> limit,
                       products |-> r.recommendations, tier |-> r.tier]
    /\ UNCHANGED <<shopVars, amazonVars, promptVars, finalVars, termVars, sessionVars>>

InitRecommend ==
    /\ InitShopify
    /\ IdleAmazon
    /\ call = NoCall
    /\ IdlePrompt
    /\ IdleFinal
    /\ IdleTerms
    /\ IdleSession

NextRecommend == GetRecommendations

SpecRecommend == InitRecommend /\ [][NextRecommend]_vars

(***************************************************************************)
(* Prompt composition.  A text is a sequence of pieces; concatenating      *)
(* strings concatenates the sequences, so the order of the pieces is the   *)
(* order of the characters.                                                *)
(***************************************************************************)
\* sep.join(texts), for a sequence of strings
RECURSIVE Join(_, _)
Join(texts, sep) ==
    IF texts = <<>> THEN <<>>
    ELSE IF Len(texts) = 1 THEN <<texts[1]>>
    ELSE <<texts[1], sep>> \o Join(Tail(texts), sep)

\* sep.join(texts), for a sequence of texts
RECURSIVE JoinTexts(_, _)
JoinTexts(texts, sep) ==
    IF texts = <<>> THEN <<>>
    ELSE IF Len(texts) = 1 THEN texts[1]
    ELSE texts[1] \o <<sep>> \o JoinTexts(Tail(texts), sep)

\* the strings of a list of str
Strings(l) == [i \in 1..Len(l.v) |-> l.v[i].v]

InterestsLead == "User is interested in these fashion styles: "
ColorsLead == "User tends to prefer these colors: "
TweetsLead == "Based on recent Twitter activity, the user has mentioned: "
ContextLead == "\n\nConsider the user's personal style preferences based on Twitter data: "

\* (faulty variant) the first four tweets are quoted
QuotedTweets_Four(recent_tweets) ==
    SubSeq(recent_tweets, 1, IF Len(recent_tweets) < 4 THEN Len(recent_tweets) ELSE 4)

\* recent_tweets[:3]
QuotedTweets(recent_tweets) ==
    SubSeq(recent_tweets, 1, IF Len(recent_tweets) < 3 THEN Len(recent_tweets) ELSE 3)

\* enhance_prompt_with_twitter_data(base_prompt, twitter_data), for twitter_data
\* (here data) None or a dict of lists of str and of tweets with a text
enhance_prompt_with_twitter_data(base, data) ==
    IF ~Truthy(data) THEN base
    ELSE
    LET fashion_interests == Get(data, "fashion_interests", List(<<>>))
        color_preferences == Get(data, "color_preferences", List(<<>>))
        recent_tweets == Get(data, "recent_fashion_tweets", List(<<>>))
        quoted == QuotedTweets(recent_tweets.v)
        tweet_texts == [i \in 1..Len(quoted) |-> quoted[i].text.v]
        twitter_context ==
            (IF Truthy(fashion_interests)
             THEN << <<InterestsLead>> \o Join(Strings(fashion_interests), ", ") \o <<".">> >>
             ELSE <<>>)
            \o (IF Truthy(color_preferences)
                THEN << <<ColorsLead>> \o Join(Strings(color_preferences), ", ") \o <<".">> >>
                ELSE <<>>)
            \o (IF Truthy(recent_tweets)
                THEN << <<TweetsLead>> \o Join(tweet_texts, " | ") >>
                ELSE <<>>)
    IN  IF twitter_context # <<>>
        THEN base \o <<ContextLead>> \o JoinTexts(twitter_context, " ")
        ELSE base

\* the base prompt of the Analyze Image handler
base_prompt ==
    <<"Analyze this person's outfit and provide a recommendation. ",
      "Be specific about individual clothing items that would complement this outfit.">>

\* (faulty variant) the handler marks every request as personalized
using_personalization_Always(data) == TRUE

\* the Analyze Image handler's st.session_state.using_personalization
using_personalization(data) == Truthy(data)

\* the Analyze Image handler's prompt
HandlerPrompt(data) ==
    IF Truthy(data) THEN enhance_prompt_with_twitter_data(base_prompt, data)
    ELSE base_prompt

BasePrompts == { <<>>, <<"Describe the outfit.">>, base_prompt }
Interests == {"casual", "vintage"}
Colors == {"black", "pastels"}
Tweets == {"Loving the new trends", "Minimalist outfits are my go-to"}

\* a tweet as the connector gives it
Tweet(text) == [t |-> "dict", text |-> Str(text)]

StrList(texts) == List([i \in 1..Len(texts) |-> Str(texts[i])])
TweetList(texts) == List([i \in 1..Len(texts) |-> Tweet(texts[i])])

user_info == [t |-> "dict", username |-> Str("alexfashion")]

\* the profiles: every combination of interests, colors and tweets, empty lists
\* included, and a profile that has none of the three keys
Profiles ==
    { [t |-> "dict", user_info |-> user_info,
       fashion_interests |-> StrList(i),
       color_preferences |-> StrList(c),
       recent_fashion_tweets |-> TweetList(w)] :
         i \in SeqsUpTo(Interests, MaxPrefs), c \in SeqsUpTo(Colors, MaxPrefs),
         w \in SeqsUpTo(Tweets, MaxTweets) }
    \cup { [t |-> "dict", user_info |-> user_info] }

\* what st.session_state.twitter_data may hold
SessionData == Profiles \cup {None, EmptyDict}

InitPrompt ==
    /\ IdleShopify /\ IdleAmazon /\ call = NoCall
    /\ twitter_data \in SessionData
    /\ promptCall = NoCall
    /\ IdleFinal
    /\ IdleTerms
    /\ IdleSession

\* a call of enhance_prompt_with_twitter_data(base_prompt, twitter_data)
EnhancePrompt ==
    /\ \E base \in BasePrompts :
          promptCall' = [op |-> "enhance", base |-> base,
                         prompt |-> enhance_prompt_with_twitter_data(base, twitter_data)]
    /\ UNCHANGED <<catalogVars, twitter_data, finalVars, termVars, sessionVars>>

\* the Analyze Image handler up to the vision call: the prompt it sends and the
\* using_personalization flag it sets
PreparePrompt ==
    /\ promptCall' = [op |-> "analyze", base |-> base_prompt,
                      prompt |-> HandlerPrompt(twitter_data),
                      using_personalization |-> using_personalization(twitter_data)]
    /\ UNCHANGED <<catalogVars, twitter_data, finalVars, termVars, sessionVars>>

NextPrompt == EnhancePrompt \/ PreparePrompt

SpecPrompt == InitPrompt /\ [][NextPrompt]_vars

(***************************************************************************)
(* app_final.py: the handler of "Analyze Outfit & Get Recommendations".    *)
(* One action per external call; the whole handler is one try block, so    *)
(* an exception anywhere shows the error and ends the handler.             *)
(***************************************************************************)
Subheader(text) == [kind |-> "subheader", text |-> text]
Write(value) == [kind |-> "write", value |-> value]
ErrorShown == [kind |-> "error"]
ImageShown == [kind |-> "image"]

Ran(stage, ok) == [stage |-> stage, ok |-> ok]

\* the texts of trends_response.candidates[0].content.parts, Raise when the
\* answer has no first candidate, no content or no parts to iterate over
PartTexts(trends_response) ==
    IF ~HasAttr(trends_response, "candidates") \/ trends_response.candidates.t # "list"
       \/ trends_response.candidates.v = <<>> THEN Raise
    ELSE
    LET candidate == trends_response.candidates.v[1]
    IN  IF ~HasAttr(candidate, "content") \/ ~HasAttr(candidate.content, "parts")
           \/ candidate.content.parts.t # "list" THEN Raise
        ELSE List([i \in 1..Len(candidate.content.parts.v) |->
                        candidate.content.parts.v[i].text])

\* (faulty variant) a segment that repeats the one before it is joined once
JoinedTrends_Deduplicated(out) ==
    IF \E i \in 1..Len(out) : out[i].t # "str" THEN Raise
    ELSE LET keep == {i \in 1..Len(out) : i = 1 \/ out[i] # out[i - 1]}
             kth(k) == CHOOSE i \in keep : Cardinality({j \in keep : j < i}) = k - 1
         IN  [t |-> "text",
              v |-> Join([k \in 1..Cardinality(keep) |-> out[kth(k)].v], " ")]

\* " ".join(out): Raise when a segment has no text
JoinedTrends(out) ==
    IF \E i \in 1..Len(out) : out[i].t # "str" THEN Raise
    ELSE [t |-> "text", v |-> Join([i \in 1..Len(out) |-> out[i].v], " ")]

AnalysisTexts == { None, Str(""), Str("- casual denim look") }
Segments == { Str("- wide-leg trousers"), Str("- earth tones"), None }

Part(text) == [t |-> "obj", text |-> text]
Grounded(parts) ==
    [t |-> "obj", candidates |-> List(<<[t |-> "obj", content |->
        [t |-> "obj", parts |-> List([i \in 1..Len(parts) |-> Part(parts[i])])]]>>)]

TrendResponses ==
    { RaiseResp,
      \* no candidate; a candidate without content
      [t |-> "obj", candidates |-> List(<<>>)],
      [t |-> "obj", candidates |-> List(<<[t |-> "obj", content |-> None]>>)] }
    \cup { Grounded(parts) : parts \in SeqsUpTo(Segments, MaxParts) }

\* generate_images: it raises, or gives a list of images that open or do not
ImageResults == { "raise", "none", "one", "broken" }

InitFinal ==
    /\ IdleShopify /\ IdleAmazon /\ call = NoCall
    /\ IdlePrompt
    /\ IdleFinal
    /\ IdleTerms
    /\ IdleSession

\* (faulty variant) the exception handler clears the page before it reports
Failed_Clearing(stage, sofar) ==
    /\ ran' = Append(ran, Ran(stage, FALSE))
    /\ shown' = <<ErrorShown>>
    /\ fpc' = "done"

\* the exception handler: st.error, and the handler is over
Failed(stage, sofar) ==
    /\ ran' = Append(ran, Ran(stage, FALSE))
    /\ shown' = Append(sofar, ErrorShown)
    /\ fpc' = "done"

\* the button is pressed: the page is drawn anew, the image is uploaded and
\* analysed, the analysis is written
FinalAnalyze ==
    /\ fpc \in {"idle", "done"}
    /\ trends' = None
    /\ \/ /\ ran' = <<Ran("upload", FALSE)>>
          /\ shown' = <<ErrorShown>>
          /\ fpc' = "done"
          /\ outfit_analysis' = None
       \/ /\ ran' = <<Ran("upload", TRUE), Ran("analysis", FALSE)>>
          /\ shown' = <<ErrorShown>>
          /\ fpc' = "done"
          /\ outfit_analysis' = None
       \/ \E text \in AnalysisTexts :
            /\ ran' = <<Ran("upload", TRUE), Ran("analysis", TRUE)>>
            /\ outfit_analysis' = text
            /\ shown' = <<Subheader("Your Outfit Analysis:"), Write(text)>>
            /\ fpc' = "analysis"
    /\ UNCHANGED <<catalogVars, promptVars, termVars, sessionVars>>

\* the search-grounded call and the concatenation of its segments
FinalTrends ==
    /\ fpc = "analysis"
    /\ UNCHANGED <<catalogVars, promptVars, outfit_analysis, termVars, sessionVars>>
    /\ IF outfit_analysis.t # "str"
       THEN \* the query cannot be built: str + None
            Failed("trend_query", shown) /\ UNCHANGED trends
       ELSE \E trends_response \in TrendResponses :
            IF trends_response.t = "raise"
            THEN Failed("trends", shown) /\ UNCHANGED trends
            ELSE
            LET texts == PartTexts(trends_response)
                head == Append(shown, Subheader("Current Fashion Trends:"))
                written == head \o [i \in 1..Len(texts.v) |-> Write(texts.v[i])]
            IN  IF IsRaise(texts)
                THEN /\ ran' = ran \o <<Ran("trends", TRUE), Ran("segments", FALSE)>>
                     /\ shown' = Append(head, ErrorShown)
                     /\ fpc' = "done"
                     /\ UNCHANGED trends
                ELSE IF IsRaise(JoinedTrends(texts.v))
                THEN /\ ran' = ran \o <<Ran("trends", TRUE), Ran("segments", FALSE)>>
                     /\ shown' = Append(written, ErrorShown)
                     /\ fpc' = "done"
                     /\ UNCHANGED trends
                ELSE /\ ran' = ran \o <<Ran("trends", TRUE), Ran("segments", TRUE)>>
                     /\ shown' = written
                     /\ trends' = JoinedTrends(texts.v)
                     /\ fpc' = "trends"

\* the image synthesis and the display of its images
FinalImage ==
    /\ fpc = "trends"
    /\ UNCHANGED <<catalogVars, promptVars, outfit_analysis, trends, termVars, sessionVars>>
    /\ LET head == Append(shown, Subheader("Suggested Outfit:"))
       IN  \E generated_outfit \in ImageResults :
             CASE generated_outfit = "raise" -> Failed("images", head)
               [] generated_outfit = "broken" ->
                    /\ ran' = ran \o <<Ran("images", TRUE), Ran("display", FALSE)>>
                    /\ shown' = Append(head, ErrorShown)
                    /\ fpc' = "done"
               [] generated_outfit = "none" ->
                    /\ ran' = Append(ran, Ran("images", TRUE))
                    /\ shown' = head
                    /\ fpc' = "done"
               [] OTHER ->
                    /\ ran' = ran \o <<Ran("images", TRUE), Ran("display", TRUE)>>
                    /\ shown' = Append(head, ImageShown)
                    /\ fpc' = "done"

NextFinal == FinalAnalyze \/ FinalTrends \/ FinalImage

SpecFinal == InitFinal /\ [][NextFinal]_vars

(***************************************************************************)
(* extract_search_terms                                                    *)
(* Here a str is the sequence of its characters, Text(<<"h", "a", "t">>),  *)
(* so that splitting, trimming and the pattern of the fallback work on the *)
(* characters as the code does.                                            *)
(***************************************************************************)
Text(chars) == [t |-> "text", v |-> chars]

Whitespace == {" ", "\n", "\t"}
LowerLetters == <<"a", "b", "c", "d", "e", "f", "g", "h", "i", "j", "k", "l", "m", "n", "o", "p", "q", "r", "s", "t", "u", "v", "w", "x", "y", "z">>
UpperLetters == <<"A", "B", "C", "D", "E", "F", "G", "H", "I", "J", "K", "L", "M", "N", "O", "P", "Q", "R", "S", "T", "U", "V", "W", "X", "Y", "Z">>
Digits == {"0", "1", "2", "3", "4", "5", "6", "7", "8", "9"}

\* c.isspace(), what \s matches
IsSpace(c) == c \in Whitespace

\* the characters \w matches
WordChars ==
    {LowerLetters[k] : k \in 1..Len(LowerLetters)}
    \cup {UpperLetters[k] : k \in 1..Len(UpperLetters)}
    \cup Digits \cup {"_"}

\* what \w matches
IsWord(c) == c \in WordChars

\* s.strip()
RECURSIVE LStrip(_)
LStrip(s) == IF s # <<>> /\ IsSpace(s[1]) THEN LStrip(Tail(s)) ELSE s

RECURSIVE RStrip(_)
RStrip(s) ==
    IF s # <<>> /\ IsSpace(s[Len(s)]) THEN RStrip(SubSeq(s, 1, Len(s) - 1)) ELSE s

\* (faulty variant) only the leading whitespace is removed
Strip_Left(s) == LStrip(s)

Strip(s) == RStrip(LStrip(s))

\* s.split(sep), for a separator of one character
RECURSIVE Split(_, _)
Split(s, sep) ==
    LET hits == {i \in 1..Len(s) : s[i] = sep}
    IN  IF hits = {} THEN <<s>>
        ELSE LET i == CHOOSE i \in hits : \A j \in hits : i <= j
             IN  <<SubSeq(s, 1, i - 1)>> \o Split(SubSeq(s, i + 1, Len(s)), sep)

\* c.lower(), for an upper case letter c
LowerOf ==
    [c \in {UpperLetters[k] : k \in 1..Len(UpperLetters)} |->
        LowerLetters[CHOOSE k \in 1..Len(UpperLetters) : UpperLetters[k] = c]]

\* s.lower()
Lower(s) == [i \in 1..Len(s) |-> IF s[i] \in DOMAIN LowerOf THEN LowerOf[s[i]] ELSE s[i]]

\* the alternatives of the pattern, in its order
Keywords ==
    << <<"j", "a", "c", "k", "e", "t">>,
       <<"s", "h", "i", "r", "t">>,
       <<"p", "a", "n", "t", "s">>,
       <<"s", "h", "o", "e", "s">>,
       <<"d", "r", "e", "s", "s">>,
       <<"h", "a", "t">>,
       <<"s", "w", "e", "a", "t", "e", "r">>,
       <<"j", "e", "a", "n", "s">>,
       <<"b", "o", "o", "t", "s">>,
       <<"s", "n", "e", "a", "k", "e", "r", "s">>,
       <<"c", "o", "a", "t">> >>

\* the characters [\w\s] matches
ClassChars == WordChars \cup Whitespace

\* [\w\s]
InClass(c) == c \in ClassChars

\* the characters an alternative of the pattern starts with
KeywordHeads == {Keywords[k][1] : k \in 1..Len(Keywords)}

\* the length of the alternative that matches at position p, 0 when none does
KeywordAt(s, p) ==
    IF p > Len(s) \/ s[p] \notin KeywordHeads THEN 0
    ELSE
    LET ks == {k \in 1..Len(Keywords) :
                  /\ p + Len(Keywords[k]) - 1 <= Len(s)
                  /\ SubSeq(s, p, p + Len(Keywords[k]) - 1) = Keywords[k]}
    IN  IF ks = {} THEN 0
        ELSE Len(Keywords[CHOOSE k \in ks : \A j \in ks : k <= j])

\* the last position of the run of [\w\s] characters that starts at i
RunEnd(s, i) ==
    LET out == {j \in i..Len(s) : ~InClass(s[j])}
    IN  IF out = {} THEN Len(s)
        ELSE (CHOOSE j \in out : \A k \in out : j <= k) - 1

\* the match of ([\w\s]+(?:jacket|...|coat)) attempted at position i: where it
\* ends, 0 when there is none. [\w\s]+ is greedy: it takes the whole run and
\* gives characters back until an alternative follows.
MatchAt(s, i) ==
    LET ns == {n \in i..RunEnd(s, i) : KeywordAt(s, n + 1) > 0}
    IN  IF ns = {} THEN 0
        ELSE LET n == CHOOSE n \in ns : \A m \in ns : m <= n
             IN  n + KeywordAt(s, n + 1)

\* re.findall(pattern, s): the matches from left to right, without overlap.
\* An attempt that fails at i fails at every later start inside the same run of
\* [\w\s] characters and at the character that ends the run, so the scan goes
\* on behind that character.
RECURSIVE FindAllFrom(_, _)
FindAllFrom(s, i) ==
    IF i > Len(s) THEN <<>>
    ELSE LET m == MatchAt(s, i)
         IN  IF m = 0 THEN FindAllFrom(s, RunEnd(s, i) + 2)
             ELSE <<SubSeq(s, i, m)>> \o FindAllFrom(s, m + 1)

\* if term.strip()
NonEmpty(term) == term # <<>>

\* (faulty variant) a phrase of any length is kept
LongEnough_Any(item) == TRUE

\* if len(item.strip()) > 5
LongEnough(item) == Len(item) > 5

\* the try block: response.text.strip(), split on commas, each term stripped,
\* the empty ones dropped; Raise when the call or reading its text raises
PrimaryTerms(response) ==
    IF IsRaise(response) THEN Raise
    ELSE IF response.text.t # "text" THEN Raise
    ELSE LET terms == Split(Strip(response.text.v), ",")
         IN  List(SelectSeq([i \in 1..Len(terms) |-> Strip(terms[i])], NonEmpty))

\* the except block: the matches in the lowercased text, stripped, those of at
\* most 5 characters dropped
FallbackTerms(text) ==
    LET items == FindAllFrom(Lower(text.v), 1)
    IN  List(SelectSeq([i \in 1..Len(items) |-> Strip(items[i])], LongEnough))

\* (faulty variant) the fallback also runs when the response names no term
UsesFallback_WhenEmpty(response) ==
    IsRaise(PrimaryTerms(response)) \/ PrimaryTerms(response) = List(<<>>)

\* the except block is entered
UsesFallback(response) == IsRaise(PrimaryTerms(response))

\* extract_search_terms(recommendation_text), against the response of the
\* generation call
extract_search_terms(text, response) ==
    IF UsesFallback(response) THEN FallbackTerms(text) ELSE PrimaryTerms(response)

\* the concatenation of a sequence of pieces
RECURSIVE Flatten(_)
Flatten(pieces) == IF pieces = <<>> THEN <<>> ELSE pieces[1] \o Flatten(Tail(pieces))

\* every text made of at most MaxPieces of the pieces
TextsOf(pieces) == {Flatten(p) : p \in SeqsUpTo(pieces, MaxPieces)}

\* what the generation call may answer with: words, separators and blanks in
\* any arrangement
ResponsePieces ==
    { <<"t", "e", "e">>,
      <<" ">>,
      <<",">>,
      <<",", " ">>,
      <<"\n">>,
      <<"r", "e", "d", " ", "h", "a", "t">> }
ResponseTexts == TextsOf(ResponsePieces)

\* a response object with its text
Response(text) == [t |-> "obj", text |-> text]

\* the call raises, the response has no text, or it has one
FailedResponses == {Raise, Response(None)}
Responses == FailedResponses \cup {Response(Text(s)) : s \in ResponseTexts}

\* recommendation texts: garments named, alone and inside other words, in
\* either case, with and without punctuation between them
RecommendationPieces ==
    { <<"r", "e", "d", " ", "w", "o", "o", "l", " ", "s", "w", "e", "a", "t", "e", "r">>,
      <<" ">>,
      <<",", " ">>,
      <<"t", "h", "a", "t">>,
      <<"B", "l", "u", "e", " ", "J", "E", "A", "N", "S">>,
      <<"h", "a", "t">> }
RecommendationTexts == TextsOf(RecommendationPieces)

WoolSweater == <<"r", "e", "d", " ", "w", "o", "o", "l", " ", "s", "w", "e", "a", "t", "e", "r">>

\* extract_search_terms is called with any response for one recommendation,
\* and with any recommendation when the generation call fails
InitTerms ==
    /\ IdleShopify /\ IdleAmazon /\ call = NoCall
    /\ IdlePrompt
    /\ IdleFinal
    /\ IdleSession
    /\ termsCall = NoCall
    /\ \/ recommendation_text = Text(WoolSweater) /\ extraction \in Responses
       \/ recommendation_text \in {Text(s) : s \in RecommendationTexts}
          /\ extraction \in FailedResponses

\* a call of extract_search_terms(recommendation_text)
ExtractTerms ==
    /\ termsCall' = [op |-> "extract_search_terms",
                     fallback |-> UsesFallback(extraction),
                     terms |-> extract_search_terms(recommendation_text, extraction)]
    /\ UNCHANGED <<catalogVars, promptVars, finalVars, recommendation_text, extraction,
                   sessionVars>>

NextTerms == ExtractTerms

SpecTerms == InitTerms /\ [][NextTerms]_vars

(***************************************************************************)
(* The session of app.py: the sidebar and the Analyze Image handler        *)
(***************************************************************************)
DefaultLimit == 3   \* limit=3 of search_amazon_products and search_shopify_products
MaxSearched == 3    \* search_terms[:3]

\* shopify_client: the connector is built at startup when the store URL and one
\* of the tokens are configured
shopify_client == admin_headers \/ storefront_headers

\* pinai_client: built at startup when PINAI_API_KEY is set
pinai_client == pinai_key

\* the profile get_twitter_style_data makes up
simulated_data(username) ==
    [t |-> "dict",
     user_info |-> [t |-> "dict", username |-> Str(username)],
     fashion_interests |-> StrList(<<"casual", "streetwear", "vintage", "minimalist">>),
     color_preferences |-> StrList(<<"black", "white", "earth tones", "pastels">>),
     recent_fashion_tweets |->
        TweetList(<<"Loving the new sustainable fashion trends this season! #EcoFashion",
                    "Just picked up some amazing vintage pieces from the thrift store",
                    "Minimalist outfits are my go-to for busy days">>)]

\* get_twitter_style_data(username); fetched is false when the try block raises
get_twitter_style_data(client, username, fetched) ==
    IF ~client THEN None
    ELSE IF fetched THEN simulated_data(username)
    ELSE None

\* ShopifyConnector.search_with_pinai(query, limit)
search_with_pinai(client, adm_headers, sf_headers, query, limit, up) ==
    IF ~client THEN search_products(adm_headers, sf_headers, query, limit, up)
    ELSE search_products(adm_headers, sf_headers, query, limit, up)

\* (faulty variant) the connector is asked whether it was built or not
search_shopify_products_Unguarded(client, search_term, limit, up) ==
    LET r == search_with_pinai(pinai_client, admin_headers, storefront_headers,
                               search_term, limit, up)
    IN  [products |-> List(r.products), requests |-> r.requests]

\* search_shopify_products(search_term, limit): what it returns and the
\* endpoints requested on the way
search_shopify_products(client, search_term, limit, up) ==
    IF ~client THEN [products |-> None, requests |-> <<>>]
    ELSE LET r == search_with_pinai(pinai_client, admin_headers, storefront_headers,
                                    search_term, limit, up)
         IN  [products |-> List(r.products), requests |-> r.requests]

\* (faulty variant) every extracted term is searched
Searched_All(search_terms) == search_terms

\* search_terms[:3]
Searched(search_terms) ==
    SubSeq(search_terms, 1,
           IF Len(search_terms) < MaxSearched THEN Len(search_terms) ELSE MaxSearched)

\* the Amazon tab: one search per term, none without the client
AmazonTab(search_terms) ==
    IF amazon_client
    THEN [i \in 1..Len(Searched(search_terms)) |->
            [catalog |-> "amazon", term |-> Searched(search_terms)[i],
             products |-> search_amazon_products(amazon_client, Searched(search_terms)[i],
                                                 DefaultLimit, amazonUp),
             requests |-> <<"amazon">>]]
    ELSE <<>>

\* the Shopify tab: one search per term, none without the client
ShopifyTab(search_terms) ==
    IF shopify_client
    THEN [i \in 1..Len(Searched(search_terms)) |->
            LET r == search_shopify_products(shopify_client, Searched(search_terms)[i],
                                             DefaultLimit, upstream)
            IN  [catalog |-> "shopify", term |-> Searched(search_terms)[i],
                 products |-> r.products, requests |-> r.requests]]
    ELSE <<>>

NoResponseReceived == <<"N", "o", " ", "r", "e", "s", "p", "o", "n", "s", "e", " ", "r", "e", "c", "e", "i", "v", "e", "d", ".">>

\* recommendation_text = response.text if response else "No response received."
RecommendationOf(response) ==
    IF IsNone(response) THEN Text(NoResponseReceived) ELSE response.text

\* (faulty variant) only None counts as no text
TruthyText_NotNone(x) == x.t = "text"

\* bool(x) of a str given by its characters, or of None
TruthyText(x) == x.t = "text" /\ x.v # <<>>

\* the product search section of the handler: the terms extracted (None when
\* the extraction is not reached) and the searches made, in order
ProductSearch(text, response) ==
    IF (amazon_client \/ shopify_client) /\ TruthyText(text)
    THEN LET search_terms == extract_search_terms(text, response)
         IN  [search_terms |-> search_terms,
              searches |-> IF search_terms.v # <<>>
                           THEN AmazonTab(search_terms.v) \o ShopifyTab(search_terms.v)
                           ELSE <<>>]
    ELSE [search_terms |-> None, searches |-> <<>>]

Usernames == {"alexfashion"}

\* what the vision call answers: it raises, gives no response, a response
\* without text, or one with a text
VisionResponses ==
    { Raise, None, Response(None), Response(Text(<<>>)), Response(Text(WoolSweater)) }

\* what the generation call of extract_search_terms answers in the session
SessionExtractions ==
    { Raise, Response(Text(<<>>)),
      Response(Text(<<"t", "e", "e", ",", " ", "r", "e", "d", " ", "h", "a", "t", ",", " ", "b", "o", "o", "t", "s", " ", ",", "c", "o", "a", "t">>)) }

\* one well-formed answer per Shopify tier; Amazon answers or fails
SessionAdmin == { Http(200, [t |-> "dict", products |-> List(<<GoodProduct>>)]) }
SessionStorefront ==
    { Http(200, StorefrontBody(<<[t |-> "dict", node |-> GoodNode]>>)) }
SessionAmazon == { RaiseResp, [t |-> "obj", items |-> List(<<GoodItem>>)] }

InitSession ==
    /\ admin_headers \in BOOLEAN
    /\ storefront_headers \in BOOLEAN
    /\ upstream \in [admin : IF admin_headers THEN SessionAdmin ELSE {RaiseResp},
                      storefront : IF storefront_headers THEN SessionStorefront
                                   ELSE {RaiseResp}]
    /\ amazon_client \in BOOLEAN
    /\ amazonUp \in IF amazon_client THEN SessionAmazon ELSE {RaiseResp}
    /\ call = NoCall
    /\ IdlePrompt
    /\ IdleFinal
    /\ recommendation_text = None
    /\ extraction \in SessionExtractions
    /\ termsCall = NoCall
    /\ pinai_key \in BOOLEAN
    /\ twitter_connected = FALSE
    /\ attempts = <<>>
    /\ request = NoCall

\* the Connect Twitter button of the sidebar, with a username typed in
ConnectTwitter ==
    /\ Len(attempts) < MaxAttempts
    /\ \E username \in Usernames, fetched \in BOOLEAN :
          IF pinai_key
          THEN LET data == get_twitter_style_data(pinai_client, username, fetched)
               IN  /\ twitter_data' = data
                   /\ twitter_connected' = IF Truthy(data) THEN TRUE ELSE twitter_connected
                   /\ attempts' = Append(attempts, Truthy(data))
          ELSE UNCHANGED <<twitter_data, twitter_connected, attempts>>
    /\ UNCHANGED <<catalogVars, promptCall, finalVars, termVars, pinai_key, request>>

\* the Analyze Image button: the prompt, the vision call, the recommendation,
\* the extraction of the terms and the searches of both tabs
AnalyzeImage ==
    /\ promptCall' = [op |-> "analyze", base |-> base_prompt,
                      prompt |-> HandlerPrompt(twitter_data),
                      using_personalization |-> using_personalization(twitter_data)]
    /\ \E response \in VisionResponses :
          IF IsRaise(response)
          THEN /\ request' = [op |-> "analyze", failed |-> TRUE,
                              search_terms |-> None, searches |-> <<>>]
               /\ UNCHANGED <<recommendation_text, termsCall>>
          ELSE LET text == RecommendationOf(response)
                   found == ProductSearch(text, extraction)
               IN  /\ recommendation_text' = text
                   /\ request' = [op |-> "analyze", failed |-> FALSE,
                                  search_terms |-> found.search_terms,
                                  searches |-> found.searches]
                   /\ termsCall' =
                        IF IsNone(found.search_terms) THEN termsCall
                        ELSE [op |-> "extract_search_terms",
                              fallback |-> UsesFallback(extraction),
                              terms |-> found.search_terms]
    /\ UNCHANGED <<catalogVars, twitter_data, finalVars, extraction, pinai_key,
                   twitter_connected, attempts>>

\* a call of search_shopify_products(search_term, limit)
SearchShopify ==
    /\ \E term \in Terms, limit \in 1..MaxLimit :
          LET r == search_shopify_products(shopify_client, term, limit, upstream)
          IN  call' = [op |-> "search_shopify_products", search_term |-> term,
                       limit |-> limit, products |-> r.products, requests |-> r.requests]
    /\ UNCHANGED <<shopVars, amazonVars, promptVars, finalVars, termVars, sessionVars>>

NextSession == ConnectTwitter \/ AnalyzeImage \/ SearchShopify

SpecSession == InitSession /\ [][NextSession]_vars

(***************************************************************************)
(* Properties of the catalog searches                                      *)
(***************************************************************************)
Range(f) == {f[i] : i \in DOMAIN f}

IsShopifySearch == call.op = "search_products"
IsAmazonSearch == call.op = "search_amazon_products"

\* the products of the admin answer, <<>> when it has none to iterate over
AdminRows ==
    LET r == upstream.admin
    IN  IF r.t = "http" /\ r.status_code = 200 /\ r.json.t = "dict"
           /\ In("products", r.json) /\ r.json.products.t = "list"
        THEN r.json.products.v ELSE <<>>

\* the edges of the storefront answer, <<>> when it has none to iterate over
StorefrontRows ==
    LET r == upstream.storefront
    IN  IF r.t = "http" /\ r.status_code = 200 /\ r.json.t = "dict"
           /\ In("data", r.json) /\ r.json.data.t = "dict"
        THEN r.json.data.products.edges.v ELSE <<>>

\* the admin tier appended at least one row
AdminYields ==
    admin_headers /\ AdminRows # <<>> /\ ~IsRaise(AdminProductInfo(AdminRows[1]))

\* the admin loop raised on one of the products
AdminLoopRaises == \E i \in 1..Len(AdminRows) : IsRaise(AdminProductInfo(AdminRows[i]))

\* the rows the storefront tier makes of its answer
StorefrontNormalization ==
    UntilRaise([i \in 1..Len(StorefrontRows) |-> StorefrontProduct(StorefrontRows[i])])

\* C1: when the admin tier yields at least one product, search_products returns
\* admin-tier rows only (the normalized products, in order, up to the one the
\* loop raised on), does not request the storefront endpoint and returns no
\* storefront-tier row.
C1_AdminRowsOnly ==
    (IsShopifySearch /\ AdminYields) =>
        /\ "storefront" \notin Range(call.requests)
        /\ Len(call.products) >= 1
        /\ Len(call.products) <= Len(AdminRows)
        /\ \A i \in 1..Len(call.products) :
              /\ call.products[i] = AdminProductInfo(AdminRows[i])
              /\ \A j \in 1..Len(StorefrontRows) :
                    call.products[i] # StorefrontProduct(StorefrontRows[j])

\* C1 witness: the admin loop raised after appending a row, a storefront token
\* is configured and the storefront has rows to give
C1_Witness ==
    /\ IsShopifySearch /\ AdminYields /\ AdminLoopRaises
    /\ storefront_headers
    /\ StorefrontNormalization # <<>>
    /\ Len(call.products) = 1

\* the storefront tier was requested and the list is its normalization
FromStorefront ==
    /\ "storefront" \in Range(call.requests)
    /\ call.products = StorefrontNormalization

\* the admin tier is unavailable: no credential, a failed request, a non-200
\* status, or an exception anywhere in the tier
AdminUnavailable ==
    \/ ~admin_headers
    \/ upstream.admin.t = "raise"
    \/ upstream.admin.status_code # 200
    \/ IsRaise(upstream.admin.json)
    \/ AdminLoopRaises

\* C2 as stated: with a storefront credential, an unavailable admin tier (an
\* exception included) or one that yields zero products makes search_products
\* return the storefront tier's normalization.
C2_Original ==
    (IsShopifySearch /\ storefront_headers /\ (AdminUnavailable \/ AdminRows = <<>>))
        => FromStorefront

\* C2 amended: with a storefront credential, when the admin tier appended no row
\* (no credential, a failed request, a non-200 status, an exception before the
\* first row, or zero products), the storefront tier is requested and the
\* returned list is exactly the storefront-tier normalization of its answer.
C2_StorefrontWhenAdminEmpty ==
    (IsShopifySearch /\ storefront_headers /\ ~AdminYields) => FromStorefront

\* C2 witness: the admin tier answered 200 with no product and the storefront
\* rows were returned
C2_Witness ==
    /\ IsShopifySearch /\ storefront_headers /\ admin_headers
    /\ upstream.admin.t = "http" /\ upstream.admin.status_code = 200
    /\ upstream.admin.json.t = "dict"
    /\ AdminRows = <<>>
    /\ Len(call.products) = 2
    /\ call.requests = <<"admin", "storefront">>
\* the records the last search returned
Returned ==
    CASE IsShopifySearch -> call.products
      [] IsAmazonSearch /\ call.products.t = "list" -> call.products.v
      [] OTHER -> <<>>

\* a populated string: neither null nor empty
Populated(x) == x.t = "str" /\ x.v # ""

\* C4: every returned product record has a populated title and a populated url,
\* whatever the upstream record looks like.
C4_TitleUrlPopulated ==
    \A i \in 1..Len(Returned) :
        Populated(Returned[i].title) /\ Populated(Returned[i].url)

\* the upstream Amazon answer is a result with a list of items
AmazonAnswered ==
    IsAmazonSearch /\ amazon_client /\ amazonUp.t = "obj" /\ amazonUp.items.t = "list"

\* the items search_amazon_products looks at
Looked == FirstItems(amazonUp.items.v, call.limit)

\* attribute a of o, None when o is None or has no such attribute
Attr(o, a) == IF a \in Keys(o) THEN o[a] ELSE None

FirstListing(item) ==
    LET listings == Attr(Attr(item, "offers"), "listings")
    IN  IF listings.t = "list" /\ listings.v # <<>> THEN listings.v[1] ELSE None

\* no offers, no listings, no price, or a price that has no amount attribute
NoPriceListing(item) == ~HasAttr(Attr(FirstListing(item), "price"), "amount")

\* as above, or a price whose amount is null
NoPriceAmount(item) == IsNone(Attr(Attr(FirstListing(item), "price"), "amount"))

\* no images, no primary image, or no large image
NoLargeImage(item) == IsNone(Attr(Attr(Attr(item, "images"), "primary"), "large"))

\* no by-line info, or no brand in it
NoBrand(item) == IsNone(Attr(Attr(Attr(item, "item_info"), "by_line_info"), "brand"))

\* the search returned one record per item it looked at
OnePerItem == call.products.t = "list" /\ Len(call.products.v) = Len(Looked)

\* C5: an Amazon item whose nested structure is absent at some level (price
\* listing, large image, brand) gets null in the corresponding field, and the
\* search still returns it and every other item.
C5_AbsentFieldsNull ==
    AmazonAnswered =>
        /\ OnePerItem
        /\ \A i \in 1..Len(Looked) :
              /\ NoPriceListing(Looked[i]) => IsNone(call.products.v[i].price)
              /\ NoLargeImage(Looked[i]) => IsNone(call.products.v[i].image)
              /\ NoBrand(Looked[i]) => IsNone(call.products.v[i].rating)

\* C6: an Amazon item without a price listing (no offers, empty listings, or a
\* price without an amount) among the first limit items is returned with
\* price = null, and the list has one record per item among the first limit.
\* Stated for the answers whose items lack nothing but the price listing, where
\* the defect of C5 (a missing large image or brand fails the search) is out of
\* the way.
C6_MissingPriceKept ==
    (AmazonAnswered /\ \A i \in 1..Len(Looked) : ~NoLargeImage(Looked[i]) /\ ~NoBrand(Looked[i])) =>
        /\ OnePerItem
        /\ \A i \in 1..Len(Looked) :
              NoPriceAmount(Looked[i]) => IsNone(call.products.v[i].price)

NormalizedFields == {"id", "title", "url", "price", "image_url", "source_catalog"}
ShopifyFields == {"id", "title", "description", "url", "price", "image_url"}
AmazonFields == {"title", "url", "price", "image", "rating"}

PriceRecordOrNull(price) ==
    IsNone(price) \/ (price.t = "dict" /\ Keys(price) = {"amount", "currency"})

FirstOf(product, key) ==
    LET l == Get(product, key, None)
    IN  IF l.t = "list" /\ l.v # <<>> /\ l.v[1].t = "dict" THEN l.v[1] ELSE EmptyDict

\* what a GraphQL node supplies: minVariantPrice and the first image node
MinVariantPrice(node) ==
    LET range == Get(node, "priceRange", None)
        price == IF range.t = "dict" THEN Get(range, "minVariantPrice", None) ELSE None
    IN  IF price.t = "dict" THEN price ELSE EmptyDict

FirstImageNode(node) ==
    LET images == Get(node, "images", None)
        edges == IF images.t = "dict" THEN Get(images, "edges", None) ELSE None
    IN  IF edges.t = "list" /\ edges.v # <<>> THEN edges.v[1].node ELSE EmptyDict

\* what the upstream record behind returned row i supplies
Supplied(i) ==
    IF "storefront" \in Range(call.requests)
    THEN LET node == StorefrontRows[i].node
         IN  [amount |-> Get(MinVariantPrice(node), "amount", None),
              currency |-> Get(MinVariantPrice(node), "currencyCode", None),
              image |-> Get(FirstImageNode(node), "url", None)]
    ELSE [amount |-> Get(FirstOf(AdminRows[i], "variants"), "price", None),
          currency |-> Get(FirstOf(AdminRows[i], "variants"), "currency", None),
          image |-> Get(FirstOf(AdminRows[i], "images"), "src", None)]

\* C8: price and image_url are never fabricated: a non-null price carries the
\* amount and the currency the upstream record supplied, and a non-null
\* image_url is the image URL the upstream record supplied.
C8_NotFabricated ==
    IsShopifySearch =>
        \A i \in 1..Len(call.products) :
            LET row == call.products[i]
                up == Supplied(i)
            IN  /\ ~IsNone(row.price) =>
                      /\ ~IsNone(up.amount) /\ row.price.amount = up.amount
                      /\ ~IsNone(up.currency) /\ row.price.currency = up.currency
                /\ ~IsNone(row.image_url) =>
                      /\ ~IsNone(up.image) /\ row.image_url = up.image

(***************************************************************************)
(* Properties of the prompt composition                                    *)
(***************************************************************************)
\* C9: composing with an absent profile (None) returns the base prompt
\* unchanged, for every base prompt, and the Analyze Image handler then sends
\* the base prompt and sets using_personalization to false.
C9_AbsentProfile ==
    twitter_data = None =>
        /\ promptCall.op = "enhance" => promptCall.prompt = promptCall.base
        /\ promptCall.op = "analyze" =>
              /\ promptCall.prompt = base_prompt
              /\ promptCall.using_personalization = FALSE

\* C9 witness: the handler has composed its prompt with no profile in the session
C9_Witness ==
    /\ twitter_data = None
    /\ promptCall.op = "analyze"
    /\ promptCall.prompt # <<>>

\* the signals of the profile in the session, as sequences of strings
SignalsOf(key) ==
    IF twitter_data.t = "dict" /\ In(key, twitter_data) THEN twitter_data[key].v ELSE <<>>

ProfileInterests == [i \in 1..Len(SignalsOf("fashion_interests")) |->
                        SignalsOf("fashion_interests")[i].v]
ProfileColors == [i \in 1..Len(SignalsOf("color_preferences")) |->
                        SignalsOf("color_preferences")[i].v]
ProfileTweets == [i \in 1..Len(SignalsOf("recent_fashion_tweets")) |->
                        SignalsOf("recent_fashion_tweets")[i].text.v]

Leads == {InterestsLead, ColorsLead, TweetsLead}

\* how often piece occurs in text
Count(text, piece) == Cardinality({i \in 1..Len(text) : text[i] = piece})

\* the sentence of text that starts with lead: from lead to the next lead
SentenceOf(text, lead) ==
    LET from == CHOOSE i \in 1..Len(text) : text[i] = lead
        later == {j \in (from + 1)..Len(text) : text[j] \in Leads}
        to == IF later = {} THEN Len(text)
              ELSE (CHOOSE j \in later : \A k \in later : j <= k) - 1
    IN  SubSeq(text, from, to)

\* the pieces of text that are signals of the profile, in order
SignalsIn(text) == SelectSeq(text, LAMBDA x : x \in Interests \cup Colors \cup Tweets)

\* the sentence with that lead is in text exactly when signals is not empty,
\* once, and the signals it holds are exactly these, in this order
OneSentence(text, lead, signals) ==
    /\ Count(text, lead) = IF signals = <<>> THEN 0 ELSE 1
    /\ signals # <<>> => SignalsIn(SentenceOf(text, lead)) = signals

\* lead a, when both are there, comes before lead b
Before(text, a, b) ==
    \A i, j \in 1..Len(text) : (text[i] = a /\ text[j] = b) => i < j

\* C10: for a profile that is not None, enhance_prompt_with_twitter_data returns
\* the base prompt followed by exactly one sentence per non-empty category, in
\* the order interests, colors, snippets; an empty category gives no sentence,
\* and the snippet sentence holds the first 3 tweets only, in their order.
C10_SentencesInOrder ==
    (promptCall.op = "enhance" /\ twitter_data # None) =>
        LET text == promptCall.prompt
            base == promptCall.base
            added == SubSeq(text, Len(base) + 1, Len(text))
        IN  /\ SubSeq(text, 1, Len(base)) = base
            /\ OneSentence(added, InterestsLead, ProfileInterests)
            /\ OneSentence(added, ColorsLead, ProfileColors)
            /\ OneSentence(added, TweetsLead,
                           SubSeq(ProfileTweets, 1,
                                  IF Len(ProfileTweets) < 3 THEN Len(ProfileTweets) ELSE 3))
            /\ Before(added, InterestsLead, ColorsLead)
            /\ Before(added, ColorsLead, TweetsLead)
            /\ Before(added, InterestsLead, TweetsLead)
            /\ (ProfileInterests = <<>> /\ ProfileColors = <<>> /\ ProfileTweets = <<>>)
                  => text = base

\* C10 witness: a profile with interests, no colors and four tweets was composed
C10_Witness ==
    /\ promptCall.op = "enhance"
    /\ twitter_data # None
    /\ Len(ProfileInterests) = 2 /\ ProfileColors = <<>> /\ Len(ProfileTweets) = 4
    /\ ProfileTweets[1] # ProfileTweets[2]
    /\ Count(promptCall.prompt, TweetsLead) = 1

(***************************************************************************)
(* Properties of the handlers                                              *)
(***************************************************************************)
StageRan(stage) == \E i \in 1..Len(ran) : ran[i].stage = stage
StageFailed(stage) == \E i \in 1..Len(ran) : ran[i] = Ran(stage, FALSE)

\* C3, for the trend stage of app_final.py: when the search-grounded call has
\* failed, the handler still runs the later stage (the image synthesis), with
\* an empty trend text.
C3_TrendFailureContained ==
    (fpc = "done" /\ StageFailed("trends")) =>
        /\ StageRan("images")
        /\ trends = [t |-> "text", v |-> <<>>]

(***************************************************************************)
(* Properties of extract_search_terms                                      *)
(***************************************************************************)
Extracted == termsCall.op = "extract_search_terms"

\* the generation call returned and its response has a text
PrimaryPath == Extracted /\ ~IsRaise(extraction) /\ extraction.text.t = "text"

\* the k-th smallest element of a set of numbers
Nth(S, k) == CHOOSE x \in S : Cardinality({y \in S : y < x}) = k - 1

\* the positions that bound the comma-separated tokens of s
Fences(s) == {0, Len(s) + 1} \cup {i \in 1..Len(s) : s[i] = ","}

\* the k-th comma-separated token of s
Token(s, k) == SubSeq(s, Nth(Fences(s), k) + 1, Nth(Fences(s), k + 1) - 1)

\* x without the whitespace around it
Trimmed(x) ==
    LET ink == {i \in 1..Len(x) : x[i] \notin Whitespace}
    IN  IF ink = {} THEN <<>>
        ELSE SubSeq(x, CHOOSE i \in ink : \A j \in ink : i <= j,
                       CHOOSE i \in ink : \A j \in ink : j <= i)

\* the tokens of s that are not blank, by position
Inked(s) == {k \in 1..(Cardinality(Fences(s)) - 1) : Trimmed(Token(s, k)) # <<>>}

\* C11: on the primary path extract_search_terms returns the comma-separated
\* tokens of the response text in their order, each without the whitespace
\* around it, the empty and the blank ones left out; so every term returned is
\* a non-empty string without whitespace at either end.
C11_PrimaryTokens ==
    PrimaryPath =>
        LET s == extraction.text.v
            terms == termsCall.terms.v
        IN  /\ termsCall.terms.t = "list"
            /\ Len(terms) = Cardinality(Inked(s))
            /\ \A n \in 1..Len(terms) : terms[n] = Trimmed(Token(s, Nth(Inked(s), n)))
            /\ \A n \in 1..Len(terms) :
                  /\ terms[n] # <<>>
                  /\ terms[n][1] \notin Whitespace
                  /\ terms[n][Len(terms[n])] \notin Whitespace

\* C11 witness: a response with a blank token and a padded one, of which two
\* terms or more are returned
C11_Witness ==
    /\ PrimaryPath
    /\ Len(termsCall.terms.v) >= 2
    /\ Cardinality(Inked(extraction.text.v)) < Cardinality(Fences(extraction.text.v)) - 1
    /\ \E k \in Inked(extraction.text.v) :
          Token(extraction.text.v, k) # Trimmed(Token(extraction.text.v, k))

\* the generation call raised, or reading the text of its response did
PrimaryRaises == IsRaise(extraction) \/ extraction.text.t = "none"

\* C12: the fallback of extract_search_terms runs exactly when the primary call
\* (or reading its text) raises: when the call returns the result is what the
\* response names, an empty list included, and when it raises the result is
\* still a list, the one of the fallback.
C12_FallbackOnlyOnRaise ==
    Extracted =>
        /\ termsCall.fallback <=> PrimaryRaises
        /\ termsCall.terms.t = "list"
        /\ ~PrimaryRaises => termsCall.terms = PrimaryTerms(extraction)
        /\ PrimaryRaises => termsCall.terms = FallbackTerms(recommendation_text)

\* C12 witness: the response names no term, the fallback would have found one,
\* and the empty list is returned
C12_Witness ==
    /\ PrimaryPath
    /\ termsCall.terms = List(<<>>)
    /\ ~termsCall.fallback
    /\ FallbackTerms(recommendation_text) # List(<<>>)

\* sub occurs in s
Contains(s, sub) ==
    \E i \in 1..(Len(s) - Len(sub) + 1) : SubSeq(s, i, i + Len(sub) - 1) = sub

Sweater == <<"s", "w", "e", "a", "t", "e", "r">>

\* C13: every phrase the fallback returns has, trimmed, 6 characters or more
\* and contains a garment keyword; and from a text that contains "red wool
\* sweater" the fallback returns a phrase that includes "sweater".
C13_FallbackPhrases ==
    (Extracted /\ PrimaryRaises) =>
        LET phrases == termsCall.terms.v
        IN  /\ \A n \in 1..Len(phrases) :
                  /\ Len(Trimmed(phrases[n])) >= 6
                  /\ \E k \in 1..Len(Keywords) : Contains(phrases[n], Keywords[k])
            /\ Contains(recommendation_text.v, WoolSweater) =>
                  \E n \in 1..Len(phrases) : Contains(phrases[n], Sweater)

\* C13 witness: the primary call failed on a text that names the sweater after
\* a short word that holds a keyword, and the fallback returned a phrase
C13_Witness ==
    /\ Extracted /\ PrimaryRaises
    /\ Contains(recommendation_text.v, WoolSweater)
    /\ recommendation_text.v # WoolSweater
    /\ termsCall.terms.v # <<>>

C18_AtMostLimit ==
    (IsShopifySearch \/ IsAmazonSearch) => Len(Returned) <= call.limit

(***************************************************************************)
(* Properties of the session and of the Analyze Image handler              *)
(***************************************************************************)
Analyzed == request.op = "analyze"

\* the handler ran to its end: the vision call answered
Completed == Analyzed /\ ~request.failed

IsAmazonEntry(e) == e.catalog = "amazon"
IsShopifyEntry(e) == e.catalog = "shopify"

\* the terms of a sequence of searches, in their order
TermsOf(log) == [i \in 1..Len(log) |-> log[i].term]

\* the terms searched in each catalog, in the order of the searches
AmazonSearched == TermsOf(SelectSeq(request.searches, IsAmazonEntry))
ShopifySearched == TermsOf(SelectSeq(request.searches, IsShopifyEntry))

\* the terms the extraction returned, <<>> when it was not reached
ExtractedTerms == IF request.search_terms.t = "list" THEN request.search_terms.v ELSE <<>>

\* the first three of the extracted terms
FirstThree ==
    [i \in 1..(IF Len(ExtractedTerms) < 3 THEN Len(ExtractedTerms) ELSE 3) |->
        ExtractedTerms[i]]

\* the recommendation text is None or ""
EmptyRecommendation == recommendation_text = None \/ recommendation_text = Text(<<>>)

\* C14: in an analysis request with an empty recommendation text there is no
\* search term and no catalog search is made; and whenever the extraction
\* returns an empty list no catalog search is made.
C14_NoTermsNoSearch ==
    Completed =>
        /\ EmptyRecommendation =>
              ExtractedTerms = <<>> /\ request.searches = <<>>
        /\ ExtractedTerms = <<>> => request.searches = <<>>

\* C14 witness: both catalogs enabled, a recommendation text, an extraction that
\* names nothing, and no search; or both enabled and an empty recommendation
C14_Witness ==
    /\ Completed
    /\ amazon_client /\ shopify_client
    /\ request.searches = <<>>
    /\ \/ ~EmptyRecommendation /\ request.search_terms = List(<<>>)
       \/ recommendation_text = Text(<<>>) /\ extraction \notin FailedResponses
                                           /\ extraction.text.v # <<>>

\* C15: in one analysis request each enabled catalog is searched for the first
\* three extracted terms, once each and in the order of the extraction, and for
\* no other term.
C15_FirstThreeOnce ==
    Completed =>
        /\ AmazonSearched = IF amazon_client THEN FirstThree ELSE <<>>
        /\ ShopifySearched = IF shopify_client THEN FirstThree ELSE <<>>

\* C15 witness: four terms extracted, both catalogs enabled, three searches in
\* each
C15_Witness ==
    /\ Completed
    /\ Len(ExtractedTerms) > 3
    /\ amazon_client /\ shopify_client
    /\ Len(AmazonSearched) = 3 /\ Len(ShopifySearched) = 3

\* an attempt of the session to fetch the profile has failed
FailedBefore == \E i \in 1..Len(attempts) : ~attempts[i]

\* C16: once get_twitter_style_data has failed in a session, no later analysis
\* request of that session runs with using_personalization true.
C16_NoRetry ==
    [][ (FailedBefore /\ (promptCall' # promptCall \/ request' # request))
            => ~promptCall'.using_personalization ]_vars

\* C19: the missing credentials of one catalog disable that catalog only: without
\* Shopify client search_shopify_products requests nothing and returns None, no
\* Shopify search is made and the Amazon searches of the request are; without
\* Amazon client the Shopify searches of the request are made.
C19_MissingCredentials ==
    /\ (call.op = "search_shopify_products" /\ ~shopify_client) =>
          call.products = None /\ call.requests = <<>>
    /\ (Completed /\ ~shopify_client /\ amazon_client) =>
          ShopifySearched = <<>> /\ AmazonSearched = FirstThree
    /\ (Completed /\ ~amazon_client /\ shopify_client) =>
          AmazonSearched = <<>> /\ ShopifySearched = FirstThree

\* C19 witness: no Shopify credentials, a direct Shopify search that returned
\* None, and a request that searched Amazon for three terms
C19_Witness ==
    /\ ~shopify_client /\ amazon_client
    /\ call.op = "search_shopify_products" /\ call.products = None
    /\ Completed
    /\ Len(AmazonSearched) = 3

(***************************************************************************)
(* Properties of the image synthesis stage of app_final.py                 *)
(***************************************************************************)
\* C20: when the generate_images call fails, what the request has emitted
\* before it stays emitted and unchanged: the page keeps the analysis and the
\* trend segments as they were written, and the analysis and the trend text
\* keep their values.
C20_ImageFailureKeeps ==
    [][ (fpc = "trends" /\ ran' # ran /\ ran'[Len(ran')] = Ran("images", FALSE)) =>
           /\ Len(shown') >= Len(shown)
           /\ SubSeq(shown', 1, Len(shown)) = shown
           /\ outfit_analysis' = outfit_analysis
           /\ trends' = trends ]_vars

\* C20 witness: the image synthesis has failed after an analysis and a trend
\* text of two segments or more were written, and both are still on the page
C20_Witness ==
    /\ fpc = "done"
    /\ StageFailed("images")
    /\ Len(shown) >= 7
    /\ shown[2] = Write(outfit_analysis)
    /\ shown[3] = Subheader("Current Fashion Trends:")
    /\ shown[Len(shown)] = ErrorShown

(***************************************************************************)
(* Properties of the trend text of app_final.py                            *)
(***************************************************************************)
\* the segments of the grounded response, as the handler wrote them to the page
\* under the trends subheader, in the order of the response
SegmentsWritten == [i \in 1..(Len(shown) - 3) |-> shown[3 + i].value]

\* C21: the trend text is the concatenation of the text segments of the
\* grounded response in the order returned, a single space between two
\* segments: every segment is there exactly once, at its place, equal segments
\* included.
C21_SegmentsInOrder ==
    (fpc = "trends") =>
        LET n == Len(SegmentsWritten)
        IN  /\ trends.t = "text"
            /\ Len(trends.v) = IF n = 0 THEN 0 ELSE 2 * n - 1
            /\ \A i \in 1..n : trends.v[2 * i - 1] = SegmentsWritten[i].v
            /\ \A i \in 1..(n - 1) : trends.v[2 * i] = " "

\* C21 witness: a response of three segments, two of them equal and next to
\* each other, all three in the trend text
C21_Witness ==
    /\ fpc = "trends"
    /\ Len(SegmentsWritten) = 3
    /\ \E i \in 1..2 : SegmentsWritten[i] = SegmentsWritten[i + 1]
    /\ SegmentsWritten[1] # SegmentsWritten[3]
    /\ Len(trends.v) = 5

\* C22: get_product_recommendations(product_id, limit) never returns a record
\* whose id equals product_id and never returns more than limit records,
\* whichever tier serves the request.
C22_NoSelfAtMostLimit ==
    (call.op = "get_product_recommendations") =>
        /\ \A i \in 1..Len(call.products) : call.products[i].id # call.product_id
        /\ Len(call.products) <= call.limit

\* C23: whenever the session flag twitter_connected is true, the session's
\* twitter_data is non-null, so that the next analysis request runs with
\* using_personalization true.
C23_ConnectedHasProfile ==
    twitter_connected =>
        /\ twitter_data # None
        /\ using_personalization(twitter_data)

====
